---- MODULE Spec2Model ----
(***************************************************************************)
(* Market-events generation pipeline of major-news: the response          *)
(* normalizer (AIService.parseAIResponse), the deduplicating ingestor     *)
(* (MarketEventsService.createEvents / findExistingEvent), the CRUD       *)
(* surface on the market_events table and the triggers that start a run.  *)
(***************************************************************************)
EXTENDS Integers, Sequences, FiniteSets, TLC

VARIABLES
    nContent,      \* normalizer: the provider's content, a sequence of lexical chunks
    nCitations,    \* normalizer: the citation URLs handed to parseAIResponse
    nResult,       \* normalizer: what parseAIResponse returned or threw
    nPhase,        \* normalizer: "input" before the call, "done" after it
    store,         \* market_events table: a set of rows, each with its own id
    nextId,        \* the next id gen_random_uuid() hands out (ids are never reused)
    run,           \* per pipeline run: position, candidates, staging, result
    calls,         \* history of the completed generateCurrentWeekEvents() calls
    provider,      \* AIService config.provider, fixed when the service is built
    targetWeek,    \* prompt builder: the Date object the caller passes in
    prompts,       \* prompt builder: the texts returned for targetWeek so far
    res            \* the answer of the read or delete route that answered last

normVars ==
    <<nContent, nCitations, nResult, nPhase>>

storeVars ==
    <<store, nextId, run, calls>>

promptVars ==
    <<targetWeek, prompts>>

vars ==
    <<nContent, nCitations, nResult, nPhase, store, nextId, run, calls, provider,
      targetWeek, prompts, res>>

(***************************************************************************)
(* JavaScript values.  Every field value is a string; three strings stand *)
(* for the values that are not strings.                                   *)
(***************************************************************************)
Undefined ==
    "<undefined>"

Null ==
    "<null>"

\* what a lookup of an inherited key (typeMappings["constructor"]) yields:
\* a function or object of Object.prototype, truthy and not a string
ObjectPrototypeMember ==
    "<Object.prototype member>"

\* !v is false
Truthy(v) ==
    v \notin {Undefined, Null, ""}

NoCitations ==
    [defined |-> FALSE, urls |-> <<>>]

SomeCitations(c) ==
    [defined |-> TRUE, urls |-> c]

(***************************************************************************)
(* The content as the regular expression and JSON.parse see it: a         *)
(* sequence of chunks.  A chunk is prose without brackets ("text"), an    *)
(* opening or closing square bracket outside any string, or one JSON      *)
(* value ("object", "null", "number"); commas between values are correct. *)
(***************************************************************************)
Chunk(kind) ==
    [kind |-> kind, date |-> Undefined, event |-> Undefined, type |-> Undefined,
     description |-> Undefined, significance |-> Undefined,
     marketSentiment |-> Undefined]

\* a nested array, as an element of the parsed array
ArrayValue ==
    Chunk("array")

\* the chunks of "[" e1, e2, ... "]"
ArrayOf(elements) ==
    <<Chunk("open")>> \o elements \o <<Chunk("close")>>

(***************************************************************************)
(* AIService.parseAIResponse                                               *)
(***************************************************************************)
validSignificance ==
    {"High", "Medium", "Low"}

validSentiment ==
    {"Bullish", "Bearish", "Neutral", "Mixed"}

validTypes ==
    {"Economic", "Fed", "Crypto", "Retail/Geopolitical", "Holiday",
     "Geopolitical", "Corporate"}

typeMappings ==
    ("US Economic Data" :> "Economic") @@
    ("Economic Data" :> "Economic") @@
    ("Federal Reserve" :> "Fed") @@
    ("Fed Meeting" :> "Fed") @@
    ("FOMC" :> "Fed") @@
    ("Cryptocurrency" :> "Crypto") @@
    ("Crypto Event" :> "Crypto") @@
    ("Retail Sales" :> "Retail/Geopolitical") @@
    ("Geopolitical Event" :> "Geopolitical") @@
    ("Holiday" :> "Holiday") @@
    ("Corporate Earnings" :> "Corporate") @@
    ("Corporate Event" :> "Corporate")

\* typeMappings is an object literal: besides its own keys it answers the
\* keys it inherits from Object.prototype
ObjectPrototypeKeys ==
    {"constructor", "toString", "toLocaleString", "valueOf", "hasOwnProperty",
     "isPrototypeOf", "propertyIsEnumerable", "__proto__"}

\* typeMappings[key]
typeMappingsLookup(key) ==
    IF key \in DOMAIN typeMappings THEN typeMappings[key]
    ELSE IF key \in ObjectPrototypeKeys THEN ObjectPrototypeMember
    ELSE Undefined

\* the if / else-if that sets normalizedType
normalizeType(type) ==
    IF Truthy(typeMappingsLookup(type)) THEN typeMappingsLookup(type)
    ELSE IF type \notin validTypes THEN "Economic"
    ELSE type

\* the "missing required fields" test; reading a property of null throws,
\* and the inner catch skips the element just the same
hasRequiredFields(event) ==
    /\ event.kind = "object"
    /\ Truthy(event.date) /\ Truthy(event.event) /\ Truthy(event.type)
    /\ Truthy(event.description) /\ Truthy(event.significance)
    /\ Truthy(event.marketSentiment)

\* the "invalid significance or sentiment" test
hasValidEnums_SentimentUnchecked(event) ==
    event.significance \in validSignificance

hasValidEnums(event) ==
    /\ event.significance \in validSignificance
    /\ event.marketSentiment \in validSentiment

\* validEvents.push({...})
toCreateMarketEvent_CitationsAlwaysSet(event, citations) ==
    [date |-> event.date,
     event |-> event.event,
     type |-> normalizeType(event.type),
     description |-> event.description,
     significance |-> event.significance,
     market_sentiment |-> event.marketSentiment,
     citations |-> SomeCitations(citations)]

toCreateMarketEvent(event, citations) ==
    [date |-> event.date,
     event |-> event.event,
     type |-> normalizeType(event.type),
     description |-> event.description,
     significance |-> event.significance,
     market_sentiment |-> event.marketSentiment,
     citations |-> IF Len(citations) > 0 THEN SomeCitations(citations)
                   ELSE NoCitations]

\* for (const event of events) { ... }
RECURSIVE validateEvents(_, _, _, _)
validateEvents(events, k, citations, validEvents) ==
    IF k > Len(events) THEN validEvents
    ELSE IF ~hasRequiredFields(events[k]) THEN
        validateEvents(events, k + 1, citations, validEvents)
    ELSE IF ~hasValidEnums(events[k]) THEN
        validateEvents(events, k + 1, citations, validEvents)
    ELSE
        validateEvents(events, k + 1, citations,
                       Append(validEvents, toCreateMarketEvent(events[k], citations)))

(***************************************************************************)
(* The regular expression and JSON.parse on the chunks of a content       *)
(***************************************************************************)
IndicesOf(content, kind) ==
    {i \in 1..Len(content) : content[i].kind = kind}

Min(S) ==
    CHOOSE x \in S : \A y \in S : x <= y

Max(S) ==
    CHOOSE x \in S : \A y \in S : x >= y

\* response.match(/\[[\s\S]*\]/): from the first "[" to the last "]" after it
regexMatch(response) ==
    LET opens == IndicesOf(response, "open")
        closes == IndicesOf(response, "close")
    IN  IF opens # {} /\ closes # {} /\ Max(closes) > Min(opens)
        THEN [found |-> TRUE, span |-> SubSeq(response, Min(opens), Max(closes))]
        ELSE [found |-> FALSE, span |-> <<>>]

\* the elements between the outer brackets, left to right
RECURSIVE parseItems(_, _, _, _)
parseItems(span, i, depth, acc) ==
    IF i >= Len(span) THEN [ok |-> depth = 0, value |-> acc]
    ELSE IF span[i].kind = "text" THEN [ok |-> FALSE, value |-> <<>>]
    ELSE IF span[i].kind = "open" THEN
        parseItems(span, i + 1, depth + 1,
                   IF depth = 0 THEN Append(acc, ArrayValue) ELSE acc)
    ELSE IF span[i].kind = "close" THEN
        IF depth = 0 THEN [ok |-> FALSE, value |-> <<>>]
        ELSE parseItems(span, i + 1, depth - 1, acc)
    ELSE parseItems(span, i + 1, depth, IF depth = 0 THEN Append(acc, span[i]) ELSE acc)

\* JSON.parse(jsonMatch[0]) of a span that starts with "[" and ends with "]"
JSONparse(span) ==
    LET r == parseItems(span, 2, 0, <<>>)
    IN  IF r.ok THEN r ELSE [ok |-> FALSE, value |-> <<>>]

ParseOk(events) ==
    [ok |-> TRUE, error |-> "", events |-> events]

ParseError(message) ==
    [ok |-> FALSE, error |-> message, events |-> <<>>]

NotCalled ==
    [ok |-> FALSE, error |-> "not called", events |-> <<>>]

parseAIResponse_EmptyResultReturned(response, citations) ==
    LET jsonMatch == regexMatch(response)
        parsed == JSONparse(jsonMatch.span)
        validEvents == validateEvents(parsed.value, 1, citations, <<>>)
    IN  IF ~jsonMatch.found THEN ParseError("No JSON array found in AI response")
        ELSE IF ~parsed.ok THEN ParseError("SyntaxError")
        ELSE ParseOk(validEvents)

parseAIResponse_MissingArrayReadAsEmpty(response, citations) ==
    LET jsonMatch == regexMatch(response)
        parsed == JSONparse(jsonMatch.span)
        validEvents == validateEvents(parsed.value, 1, citations, <<>>)
    IN  IF ~jsonMatch.found THEN ParseOk(<<>>)
        ELSE IF ~parsed.ok THEN ParseError("SyntaxError")
        ELSE IF Len(validEvents) = 0 THEN
            ParseError("No valid events found in AI response")
        ELSE ParseOk(validEvents)

parseAIResponse(response, citations) ==
    LET jsonMatch == regexMatch(response)
        parsed == JSONparse(jsonMatch.span)
        validEvents == validateEvents(parsed.value, 1, citations, <<>>)
    IN  IF ~jsonMatch.found THEN ParseError("No JSON array found in AI response")
        ELSE IF ~parsed.ok THEN ParseError("SyntaxError")
        ELSE IF Len(validEvents) = 0 THEN
            ParseError("No valid events found in AI response")
        ELSE ParseOk(validEvents)

(***************************************************************************)
(* AIService.buildMarketEventsPrompt.  A Date is its local calendar date  *)
(* (year, month 1..12, day); the time of day plays no part.               *)
(***************************************************************************)
isLeapYear(year) ==
    (year % 4 = 0 /\ year % 100 # 0) \/ year % 400 = 0

daysInMonth(year, month) ==
    IF month = 2 THEN (IF isLeapYear(year) THEN 29 ELSE 28)
    ELSE IF month \in {4, 6, 9, 11} THEN 30
    ELSE 31

\* date.setDate(n): day n counted from the first of the month of date,
\* carried into the following months, and for n < 1 into the months before
RECURSIVE setDate(_, _)
setDate(date, n) ==
    IF n < 1
    THEN LET year == IF date.month = 1 THEN date.year - 1 ELSE date.year
             month == IF date.month = 1 THEN 12 ELSE date.month - 1
         IN  setDate([year |-> year, month |-> month, day |-> 1],
                     n + daysInMonth(year, month))
    ELSE IF n <= daysInMonth(date.year, date.month) THEN [date EXCEPT !.day = n]
    ELSE setDate([year |-> IF date.month = 12 THEN date.year + 1 ELSE date.year,
                  month |-> IF date.month = 12 THEN 1 ELSE date.month + 1,
                  day |-> 1],
                 n - daysInMonth(date.year, date.month))

monthNames ==
    <<"January", "February", "March", "April", "May", "June", "July", "August",
      "September", "October", "November", "December">>

\* toLocaleDateString('en-US', {month: 'long', day: 'numeric', year: 'numeric'})
formatDate(date) ==
    <<monthNames[date.month], date.day, date.year>>

\* buildMarketEventsPrompt: the two dates the text states, and the Date
\* object of the caller as the call leaves it
buildMarketEventsPrompt_WeekEndAliased(week) ==
    [text |-> [from |-> formatDate(setDate(week, week.day + 6)),
               to |-> formatDate(setDate(week, week.day + 6))],
     targetWeek |-> setDate(week, week.day + 6)]

buildMarketEventsPrompt(week) ==
    [text |-> [from |-> formatDate(week),
               to |-> formatDate(setDate(week, week.day + 6))],
     targetWeek |-> week]

\* a caller builds the prompt for its Date object, up to twice
BuildPrompt ==
    /\ Len(prompts) < 2
    /\ prompts' = Append(prompts, buildMarketEventsPrompt(targetWeek).text)
    /\ targetWeek' = buildMarketEventsPrompt(targetWeek).targetWeek
    /\ UNCHANGED <<normVars, storeVars, provider, res>>

(***************************************************************************)
(* The market_events table                                                 *)
(***************************************************************************)
MaxId ==
    4

MaxBatchLen ==
    2

\* the identity the ingestor compares: .eq('event', ...).eq('date', ...)
matching(eventData, table) ==
    {row \in table : row.event = eventData.event /\ row.date = eventData.date}

\* .single(): the one row, or error PGRST116 for no row and for several rows
single(rows) ==
    IF Cardinality(rows) = 1 THEN [error |-> "", data |-> rows]
    ELSE [error |-> "PGRST116", data |-> {}]

\* the select of findExistingEvent, which may also fail in transport
selectExisting(eventData, table, fault) ==
    IF fault THEN [error |-> "fetch failed", data |-> {}]
    ELSE single(matching(eventData, table))

\* findExistingEvent: the row found ({row}) or null ({})
findExistingEvent_ErrorMeansFound(eventData, table, fault) ==
    IF fault THEN {eventData}
    ELSE selectExisting(eventData, table, fault).data

findExistingEvent(eventData, table, fault) ==
    IF selectExisting(eventData, table, fault).error # "" THEN {}
    ELSE selectExisting(eventData, table, fault).data

\* the row the table stores for an inserted object: id by default,
\* citations '{}' by default
newRow(eventData, id) ==
    [id |-> id,
     date |-> eventData.date,
     event |-> eventData.event,
     type |-> eventData.type,
     description |-> eventData.description,
     significance |-> eventData.significance,
     market_sentiment |-> eventData.market_sentiment,
     citations |-> IF eventData.citations.defined THEN eventData.citations.urls
                   ELSE <<>>]

\* NOT NULL and CHECK constraints of the table; a function-valued type is
\* dropped by JSON.stringify and arrives as a missing column
violatesConstraints(eventData) ==
    \/ eventData.type \in {Undefined, Null, ObjectPrototypeMember}
    \/ eventData.date \in {Undefined, Null}
    \/ eventData.event \in {Undefined, Null}
    \/ eventData.description \in {Undefined, Null}
    \/ eventData.significance \notin {"High", "Medium", "Low"}
    \/ eventData.market_sentiment \notin {"Bullish", "Bearish", "Neutral", "Mixed"}

\* .insert(rows).select(): one INSERT statement, all rows or none
insertRows(rowsData, firstId) ==
    [k \in 1..Len(rowsData) |-> newRow(rowsData[k], firstId + k - 1)]

insertFails(rowsData, fault) ==
    fault \/ \E k \in 1..Len(rowsData) : violatesConstraints(rowsData[k])

Range(f) ==
    {f[k] : k \in DOMAIN f}

tableAfterInsert_PartialCommit(table, rowsData, firstId, fault) ==
    IF insertFails(rowsData, fault)
    THEN table \cup {insertRows(rowsData, firstId)[1]}
    ELSE table \cup Range(insertRows(rowsData, firstId))

tableAfterInsert(table, rowsData, firstId, fault) ==
    IF insertFails(rowsData, fault) THEN table
    ELSE table \cup Range(insertRows(rowsData, firstId))

(***************************************************************************)
(* Pipeline runs: the startup trigger (generateCurrentWeekEvents), the     *)
(* weekly trigger (startWeeklyEventGeneration) and the manual routes      *)
(* (POST /api/market-events/generate, DELETE .../clear-regenerate)        *)
(***************************************************************************)
Runs ==
    {"startup", "weekly", "generate", "clear-regenerate"}

\* what the provider may answer in a run
EventA ==
    [kind |-> "object", date |-> "December 1 2025", event |-> "ISM PMI",
     type |-> "Economic", description |-> "Expected 48.5 vs previous 47.8",
     significance |-> "High", marketSentiment |-> "Mixed"]

EventA2 ==
    [EventA EXCEPT !.description = "Key gauge of US manufacturing health"]

EventB ==
    [kind |-> "object", date |-> "December 10 2025", event |-> "FOMC Meeting",
     type |-> "FOMC", description |-> "Rate decision",
     significance |-> "High", marketSentiment |-> "Neutral"]

EventB2 ==
    [EventB EXCEPT !.description = "Rate decision and press conference"]

PipelineObjects ==
    <<EventA, EventA2, EventB, EventB2>>

\* the elements of objects at the positions picked, in their order
RECURSIVE pickAt(_, _, _)
pickAt(objects, picked, k) ==
    IF k > Len(objects) THEN <<>>
    ELSE IF k \in picked THEN <<objects[k]>> \o pickAt(objects, picked, k + 1)
    ELSE pickAt(objects, picked, k + 1)

\* the arrays of one to MaxBatchLen of the first n objects
Batches(n) ==
    {pickAt(PipelineObjects, picked, 1) :
        picked \in {p \in SUBSET (1..n) : p # {} /\ Cardinality(p) <= MaxBatchLen}}

\* what the provider may answer: commentary and an array, with the source
\* it cites, or commentary alone
ProviderOutputs(n) ==
    {[content |-> <<Chunk("text")>> \o ArrayOf(a), citations |-> <<"https://example.com">>] :
        a \in Batches(n)}
        \cup {[content |-> <<Chunk("text")>>, citations |-> <<>>]}

NoOutput ==
    [content |-> <<>>, citations |-> <<>>]

NoResult ==
    [status |-> "none", error |-> "", generated |-> 0, created |-> <<>>, skipped |-> 0]

\* res.status(201).json({success: true, data: {generated, created, skipped, events}})
Success_GeneratedCountsCreated(generated, created, skipped) ==
    [status |-> "success", error |-> "", generated |-> Len(created),
     created |-> created, skipped |-> skipped]

Success(generated, created, skipped) ==
    [status |-> "success", error |-> "", generated |-> generated,
     created |-> created, skipped |-> skipped]

\* a run that ended in an error: the message of the error as the catch of
\* the route or of the startup callback receives it
Failure(stage) ==
    [status |-> "failure", error |-> stage, generated |-> 0, created |-> <<>>,
     skipped |-> 0]

IdleRun ==
    [pc |-> "idle", providerCalls |-> 0, output |-> NoOutput, events |-> <<>>,
     uniqueEvents |-> <<>>, skippedCount |-> 0, checks |-> <<>>,
     inserts |-> 0, stages |-> <<>>, result |-> NoResult]

Active(r) ==
    run[r].pc \in {"provider", "check", "insert"}

\* ids still free once every active run has inserted a full batch
IdsLeft ==
    MaxId - (nextId - 1) - MaxBatchLen * Cardinality({r \in Runs : Active(r)})

\* the week of the startup trigger is November 30 - December 6 2025
CurrentWeekDates ==
    {"December 1 2025"}

\* the week after it, the one the weekly trigger generates for, is
\* December 7 - December 13 2025
UpcomingWeekDates ==
    {"December 10 2025"}

holdsRecordForCurrentWeek_Never(table) ==
    FALSE

holdsRecordForCurrentWeek(table) ==
    \E row \in table : row.date \in CurrentWeekDates

\* a trigger starts a run only when its previous run has completed,
\* successfully or not
mayFire_WhileRunning(r) ==
    TRUE

mayFire(r) ==
    run[r].pc \in {"idle", "done", "failed"}

\* generateCurrentWeekEvents(): nothing further when the store already holds
\* a record for the current week, the full pipeline otherwise
StartStartup(limit) ==
    /\ mayFire("startup")
    /\ Len(calls) < limit
    /\ IdsLeft >= MaxBatchLen
    /\ IF holdsRecordForCurrentWeek(store)
       THEN /\ run' = [run EXCEPT !["startup"] =
                        [IdleRun EXCEPT !.pc = "done", !.result = Success(0, <<>>, 0)]]
            /\ calls' = Append(calls, [ranPipeline |-> FALSE, output |-> NoOutput,
                                       result |-> Success(0, <<>>, 0), table |-> store])
       ELSE /\ run' = [run EXCEPT !["startup"] = [IdleRun EXCEPT !.pc = "provider"]]
            /\ calls' = calls
    /\ UNCHANGED <<store, nextId, normVars, provider, promptVars, res>>

\* the weekly trigger: the full pipeline for the upcoming week, whatever the
\* store holds
StartWeekly_WithPreCheck ==
    /\ mayFire("weekly")
    /\ IdsLeft >= MaxBatchLen
    /\ run' = [run EXCEPT !["weekly"] =
                IF \E row \in store : row.date \in UpcomingWeekDates
                THEN [IdleRun EXCEPT !.pc = "done", !.result = Success(0, <<>>, 0)]
                ELSE [IdleRun EXCEPT !.pc = "provider"]]
    /\ UNCHANGED <<store, nextId, calls, normVars, provider, promptVars, res>>

StartWeekly ==
    /\ mayFire("weekly")
    /\ IdsLeft >= MaxBatchLen
    /\ run' = [run EXCEPT !["weekly"] = [IdleRun EXCEPT !.pc = "provider"]]
    /\ UNCHANGED <<store, nextId, calls, normVars, provider, promptVars, res>>

\* POST /generate: weekStart absent or a valid date goes on to the provider,
\* an unparseable weekStart is answered 400
StartGenerate ==
    /\ run["generate"].pc \in {"idle", "done", "failed"}
    /\ IdsLeft >= MaxBatchLen
    /\ \E weekStartValid \in BOOLEAN :
        run' = [run EXCEPT !["generate"] =
                 IF weekStartValid THEN [IdleRun EXCEPT !.pc = "provider"]
                 ELSE [IdleRun EXCEPT !.pc = "failed",
                                      !.result = Failure("Invalid weekStart date format")]]
    /\ UNCHANGED <<store, nextId, calls, normVars, provider, promptVars, res>>

\* DELETE /clear-regenerate: deleteAllEvents first, then the pipeline for
\* the current week; an error of the delete ends the request
StartClearRegenerate_NothingDeleted(faults) ==
    /\ run["clear-regenerate"].pc \in {"idle", "done", "failed"}
    /\ IdsLeft >= MaxBatchLen
    /\ run' = [run EXCEPT !["clear-regenerate"] = [IdleRun EXCEPT !.pc = "provider"]]
    /\ UNCHANGED <<store, nextId, calls, normVars, provider, promptVars, res>>

StartClearRegenerate(faults) ==
    /\ run["clear-regenerate"].pc \in {"idle", "done", "failed"}
    /\ IdsLeft >= MaxBatchLen
    /\ \E fault \in faults :
        IF fault
        THEN /\ run' = [run EXCEPT !["clear-regenerate"] =
                         [IdleRun EXCEPT !.pc = "failed",
                                         !.result = Failure("Failed to delete market events")]]
             /\ store' = store
        ELSE /\ run' = [run EXCEPT !["clear-regenerate"] =
                         [IdleRun EXCEPT !.pc = "provider"]]
             /\ store' = {}
    /\ UNCHANGED <<nextId, calls, normVars, provider, promptVars, res>>

\* what the two routes answer for the result of their run: the success body,
\* the 400 of /generate, or the 500 of the catch with the route's fixed text
routeResponse(r, result) ==
    IF result.status = "success"
    THEN [status |-> IF r = "generate" THEN 201 ELSE 200, success |-> TRUE,
          error |-> ""]
    ELSE IF result.error = "Invalid weekStart date format"
    THEN [status |-> 400, success |-> FALSE, error |-> result.error]
    ELSE [status |-> 500, success |-> FALSE,
          error |-> IF r = "generate" THEN "Failed to generate market events"
                    ELSE "Failed to clear and regenerate market events"]

\* a completed generateCurrentWeekEvents() call, for the record of calls
noteCall(r, runAfter, tableAfter) ==
    IF r = "startup" /\ runAfter.pc = "done"
    THEN Append(calls, [ranPipeline |-> TRUE, output |-> runAfter.output,
                        result |-> runAfter.result, table |-> tableAfter])
    ELSE calls

\* what callGrok and callGemini throw: a response that is not OK, a response
\* without content
ProviderErrors ==
    {"xAI API error", "No content received from xAI", "Empty response from Gemini"}

\* the errors of the provider that is configured
providerErrorsOf(configured) ==
    IF configured = "gemini" THEN {"Empty response from Gemini"}
    ELSE {"xAI API error", "No content received from xAI"}

\* aiService.generateWeeklyMarketEvents: callAI, then parseAIResponse;
\* a provider error or a parse error ends the run
ProviderFails_CalledAgain(r) ==
    /\ run[r].pc = "provider"
    /\ \E reason \in providerErrorsOf(provider) :
        run' = [run EXCEPT ![r] =
                 IF @.providerCalls = 0
                 THEN [@ EXCEPT !.providerCalls = 1]
                 ELSE [@ EXCEPT !.pc = "failed", !.providerCalls = @ + 1,
                                !.result = Failure(reason)]]
    /\ UNCHANGED <<store, nextId, calls, normVars, provider, promptVars, res>>

ProviderFails_EveryRunAborted(r) ==
    /\ run[r].pc = "provider"
    /\ \E reason \in providerErrorsOf(provider) :
        run' = [o \in Runs |->
                 IF o = r \/ Active(o)
                 THEN [run[o] EXCEPT !.pc = "failed", !.providerCalls = 1,
                                     !.result = Failure(reason)]
                 ELSE run[o]]
    /\ UNCHANGED <<store, nextId, calls, normVars, provider, promptVars, res>>

ProviderFails_NormalizesAnyway(r) ==
    /\ run[r].pc = "provider"
    /\ \E reason \in providerErrorsOf(provider) :
        run' = [run EXCEPT ![r].pc = "failed", ![r].providerCalls = @ + 1,
                           ![r].stages = <<"prompt", "provider", "normalize">>,
                           ![r].result =
                               Failure(parseAIResponse(<<>>, <<>>).error)]
    /\ UNCHANGED <<store, nextId, calls, normVars, provider, promptVars, res>>

ProviderFails(r) ==
    /\ run[r].pc = "provider"
    /\ \E reason \in providerErrorsOf(provider) :
        run' = [run EXCEPT ![r].pc = "failed", ![r].providerCalls = @ + 1,
                           ![r].stages = <<"prompt", "provider">>,
                           ![r].result = Failure(reason)]
    /\ UNCHANGED <<store, nextId, calls, normVars, provider, promptVars, res>>

\* callAI: the answer of the configured provider as {content, citations};
\* callGemini returns the text alone
callAI_CitationsKept(configured, answer) ==
    answer

callAI(configured, answer) ==
    IF configured = "gemini" THEN [content |-> answer.content, citations |-> <<>>]
    ELSE answer

ProviderAnswers(r, outputs) ==
    /\ run[r].pc = "provider"
    /\ \E answer \in outputs :
        LET output == callAI(provider, answer)
            parsed == parseAIResponse(output.content, output.citations)
        IN  run' = [run EXCEPT ![r] =
                     IF parsed.ok
                     THEN [@ EXCEPT !.pc = "check", !.providerCalls = @ + 1,
                                    !.stages = <<"prompt", "provider", "normalize">>,
                                    !.output = output, !.events = parsed.events]
                     ELSE [@ EXCEPT !.pc = "failed", !.providerCalls = @ + 1,
                                    !.stages = <<"prompt", "provider", "normalize">>,
                                    !.output = output,
                                    !.result = Failure(parsed.error)]]
    /\ UNCHANGED <<store, nextId, calls, normVars, provider, promptVars, res>>

\* for (const eventData of eventsData): the candidate of the next pass
nextCandidate_LastFirst(eventsData, checks) ==
    eventsData[Len(eventsData) - Len(checks)]

nextCandidate(eventsData, checks) ==
    eventsData[Len(checks) + 1]

\* createEvents: one pass of the duplicate loop, and after the last pass the
\* early return when nothing is staged
CheckExisting(r, faults) ==
    /\ run[r].pc = "check"
    /\ \E fault \in faults :
        LET eventData == nextCandidate(run[r].events, run[r].checks)
            existingEvent == findExistingEvent(eventData, store, fault)
            uniqueEvents == IF existingEvent # {} THEN run[r].uniqueEvents
                            ELSE Append(run[r].uniqueEvents, eventData)
            skippedCount == IF existingEvent # {} THEN run[r].skippedCount + 1
                            ELSE run[r].skippedCount
            checks == Append(run[r].checks,
                             [candidate |-> eventData,
                              fault |-> fault,
                              matches |-> Cardinality(matching(eventData, store)),
                              existing |-> existingEvent # {}])
            last == Len(checks) = Len(run[r].events)
            after == [run[r] EXCEPT
                        !.uniqueEvents = uniqueEvents,
                        !.skippedCount = skippedCount,
                        !.checks = checks,
                        !.stages = IF run[r].checks = <<>> THEN Append(@, "ingest")
                                   ELSE @,
                        !.pc = IF ~last THEN "check"
                               ELSE IF Len(uniqueEvents) = 0 THEN "done"
                               ELSE "insert",
                        !.result = IF last /\ Len(uniqueEvents) = 0
                                   THEN Success(Len(run[r].events), <<>>, skippedCount)
                                   ELSE @]
        IN  /\ run' = [run EXCEPT ![r] = after]
            /\ calls' = noteCall(r, after, store)
    /\ UNCHANGED <<store, nextId, normVars, provider, promptVars, res>>

\* createEvents: the batch insert, its error branch and the result
InsertBatch(r, faults) ==
    /\ run[r].pc = "insert"
    /\ \E fault \in faults :
        LET failed == insertFails(run[r].uniqueEvents, fault)
            created == insertRows(run[r].uniqueEvents, nextId)
            tableAfter == tableAfterInsert(store, run[r].uniqueEvents, nextId, fault)
            after == IF failed
                     THEN [run[r] EXCEPT !.pc = "failed", !.inserts = @ + 1,
                              !.result = Failure("Failed to create market events")]
                     ELSE [run[r] EXCEPT !.pc = "done", !.inserts = @ + 1,
                              !.result = Success(Len(run[r].events), created,
                                                 run[r].skippedCount)]
        IN  /\ store' = tableAfter
            /\ nextId' = IF failed THEN nextId ELSE nextId + Len(created)
            /\ run' = [run EXCEPT ![r] = after]
            /\ calls' = noteCall(r, after, tableAfter)
    /\ UNCHANGED <<normVars, provider, promptVars, res>>

(***************************************************************************)
(* The CRUD surface of the routes                                          *)
(***************************************************************************)
\* request bodies that pass MarketEventSchema
CreateBodies ==
    {toCreateMarketEvent(EventA, <<"https://example.com">>)}

\* a PUT that renames the event, moves its date and rewrites its description
UpdateBodies ==
    {[date |-> EventA2.date, event |-> EventA2.event, type |-> EventA2.type,
      description |-> EventA2.description, significance |-> EventA2.significance,
      market_sentiment |-> EventA2.marketSentiment]}

\* what new URL(s) accepts, of the strings a citation is drawn from
zUrl(s) ==
    s \in {"https://example.com", "https://a.example", "https://b.example"}

\* one field of MarketEventSchema
fieldParses(f, v) ==
    CASE f = "type" ->
            v \in {"Economic", "Fed", "Crypto", "Retail/Geopolitical", "Holiday",
                   "Geopolitical", "Corporate"}
      [] f = "significance" -> v \in {"High", "Medium", "Low"}
      [] f = "market_sentiment" -> v \in {"Bullish", "Bearish", "Neutral", "Mixed"}
      [] f = "citations" -> \A k \in 1..Len(v.urls) : zUrl(v.urls[k])
      [] OTHER -> v \notin {Undefined, Null}

\* MarketEventSchema.omit({...}).safeParse(body).success
MarketEventSchema(body) ==
    /\ {"date", "event", "type", "description", "significance",
        "market_sentiment"} \subseteq DOMAIN body
    /\ \A f \in DOMAIN body : fieldParses(f, body[f])

\* MarketEventSchema.partial().omit({...}).safeParse(body).success
MarketEventSchemaPartial(body) ==
    \A f \in DOMAIN body : fieldParses(f, body[f])

\* request bodies of the write routes: one that is valid, one with a type
\* outside the enum, one with a significance outside the enum, one that cites
\* something that is not a URL
RequestBodies ==
    {toCreateMarketEvent(EventB, <<"https://example.com">>),
     [toCreateMarketEvent(EventB, <<>>) EXCEPT !.type = "Weather Event"],
     [toCreateMarketEvent(EventB, <<>>) EXCEPT !.significance = "Extreme"],
     [toCreateMarketEvent(EventB, <<>>) EXCEPT
        !.citations = SomeCitations(<<"see Reuters">>)]}

\* the row after SET of the columns the body names; an undefined citations
\* is not sent
applyUpdates(row, updates) ==
    [f \in DOMAIN row |->
        IF f \notin DOMAIN updates THEN row[f]
        ELSE IF f # "citations" THEN updates[f]
        ELSE IF updates[f].defined THEN updates[f].urls
        ELSE row[f]]

\* .update(updates).eq('id', id): the table after it; a row that breaks a
\* constraint is refused and the call throws
updateEvent(table, row, updates) ==
    IF violatesConstraints(applyUpdates(row, updates)) THEN table
    ELSE (table \ {row}) \cup {applyUpdates(row, updates)}

\* POST /api/market-events -> createEvent: a plain insert of one row
CreateEvent(bodies) ==
    /\ IdsLeft >= 1
    /\ \E eventData \in bodies :
        /\ MarketEventSchema(eventData)
        /\ store' = tableAfterInsert(store, <<eventData>>, nextId, FALSE)
        /\ nextId' = nextId + 1
    /\ UNCHANGED <<run, calls, normVars, provider, promptVars, res>>

\* PUT /api/market-events/:id -> updateEvent
UpdateEvent(bodies) ==
    /\ \E row \in store, updates \in bodies :
        /\ MarketEventSchemaPartial(updates)
        /\ store' = updateEvent(store, row, updates)
    /\ UNCHANGED <<nextId, run, calls, normVars, provider, promptVars, res>>

\* PUT of the Next.js route api/market-events/[id]: the body goes to
\* updateEvent as it came
PUT(bodies) ==
    /\ \E row \in store, updates \in bodies :
        store' = updateEvent(store, row, updates)
    /\ UNCHANGED <<nextId, run, calls, normVars, provider, promptVars, res>>

\* DELETE /api/market-events/:id -> deleteEvent
DeleteEvent ==
    /\ \E row \in store :
        store' = {other \in store : other.id # row.id}
    /\ UNCHANGED <<nextId, run, calls, normVars, provider, promptVars, res>>

\* DELETE /api/market-events/delete-all -> deleteAllEvents
DeleteAllEvents ==
    /\ store # {}
    /\ store' = {}
    /\ UNCHANGED <<nextId, run, calls, normVars, provider, promptVars, res>>

(***************************************************************************)
(* The routes that answer from the table: GET /api/market-events/          *)
(* current-week and DELETE /api/market-events/:id                          *)
(***************************************************************************)
NoResponse ==
    [route |-> "none"]

\* date.getDay(): 0 for Sunday .. 6 for Saturday
getDay(date) ==
    LET t == <<0, 3, 2, 5, 0, 3, 5, 1, 4, 6, 2, 4>>
        y == IF date.month < 3 THEN date.year - 1 ELSE date.year
    IN  (y + (y \div 4) - (y \div 100) + (y \div 400) + t[date.month] + date.day) % 7

\* the text of a date column value: its words, with the blanks and hyphens
\* between them
text(date) ==
    CASE date = "November 28 2025" -> <<"November", " ", "28", " ", "2025">>
      [] date = "December 1 2025" -> <<"December", " ", "1", " ", "2025">>
      [] date = "December 1-3 2025" ->
             <<"December", " ", "1", "-", "3", " ", "2025">>
      [] date = "December 10 2025" -> <<"December", " ", "10", " ", "2025">>
      [] date = "1 December 2025" -> <<"1", " ", "December", " ", "2025">>

\* column ILIKE '%pattern%'
ilike(column, pattern) ==
    \E i \in 0..(Len(column) - Len(pattern)) :
        SubSeq(column, i + 1, i + Len(pattern)) = pattern

\* getEvents({date}): the rows whose date contains the filter
getEvents(table, dateFilter) ==
    {row \in table : ilike(text(row.date), dateFilter)}

\* getCurrentWeekEvents on the day today
getCurrentWeekEvents(table, today) ==
    LET startOfWeek == setDate(today, today.day - getDay(today))
        endOfWeek == setDate(startOfWeek, startOfWeek.day + 6)
        startMonth == monthNames[startOfWeek.month]
        endMonth == monthNames[endOfWeek.month]
        year == ToString(startOfWeek.year)
        dateFilter == IF startMonth = endMonth THEN <<startMonth, " ", year>>
                      ELSE <<startMonth, "-", endMonth, " ", year>>
    IN  getEvents(table, dateFilter)

\* the days on which the route is called
Todays ==
    {[year |-> 2025, month |-> 11, day |-> 29],
     [year |-> 2025, month |-> 11, day |-> 30],
     [year |-> 2025, month |-> 12, day |-> 3],
     [year |-> 2025, month |-> 12, day |-> 9]}

\* GET /api/market-events/current-week
GetCurrentWeek(days, faults) ==
    /\ \E today \in days, fault \in faults :
        res' =
            IF fault
            THEN [route |-> "GET /current-week", today |-> today, status |-> 500,
                  success |-> FALSE, data |-> {},
                  error |-> "Failed to fetch current week events"]
            ELSE [route |-> "GET /current-week", today |-> today, status |-> 200,
                  success |-> TRUE, data |-> getCurrentWeekEvents(store, today),
                  error |-> ""]
    /\ UNCHANGED <<normVars, storeVars, provider, promptVars>>

\* deleteEvent(id): true unless the delete statement fails, whatever the
\* number of rows it removed
deleteEvent(table, id, fault) ==
    IF fault THEN [thrown |-> TRUE, value |-> FALSE, table |-> table]
    ELSE [thrown |-> FALSE, value |-> TRUE,
          table |-> {row \in table : row.id # id}]

\* DELETE /api/market-events/:id
DELETE(ids, faults) ==
    /\ \E id \in ids, fault \in faults :
        LET deleted == deleteEvent(store, id, fault)
        IN  /\ store' = deleted.table
            /\ res' =
                IF deleted.thrown
                THEN [route |-> "DELETE /:id", id |-> id, status |-> 500,
                      success |-> FALSE, deleted |-> FALSE,
                      error |-> "Failed to delete market event"]
                ELSE IF ~deleted.value
                THEN [route |-> "DELETE /:id", id |-> id, status |-> 404,
                      success |-> FALSE, deleted |-> FALSE,
                      error |-> "Market event not found"]
                ELSE [route |-> "DELETE /:id", id |-> id, status |-> 200,
                      success |-> TRUE, deleted |-> TRUE, error |-> ""]
    /\ UNCHANGED <<nextId, run, calls, normVars, provider, promptVars>>

\* bodies of POST /api/market-events, one for each date of WeekDates
WeekDates ==
    {"November 28 2025", "December 1 2025", "December 1-3 2025",
     "December 10 2025", "1 December 2025"}

WeekBodies ==
    {[toCreateMarketEvent(EventA, <<"https://example.com">>) EXCEPT !.date = d] :
        d \in WeekDates}

(***************************************************************************)
(* The store and the runs before the process has done anything            *)
(***************************************************************************)
InitStore ==
    /\ res = NoResponse
    /\ store = {}
    /\ nextId = 1
    /\ run = [r \in Runs |-> IdleRun]
    /\ calls = <<>>

\* AI_PROVIDER is not set: the service is built for xai
DefaultProvider ==
    provider = "xai"

\* no prompt built yet; the week is the one of November 30 2025
PromptIdle ==
    /\ targetWeek = [year |-> 2025, month |-> 11, day |-> 30]
    /\ prompts = <<>>

NormIdle ==
    /\ nContent = <<>>
    /\ nCitations = <<>>
    /\ nResult = NotCalled
    /\ nPhase = "idle"

(***************************************************************************)
(* Spec: manual pipeline runs (POST /generate) next to the CRUD routes, on *)
(* a store whose queries and inserts may fail                             *)
(***************************************************************************)
Init ==
    InitStore /\ NormIdle /\ DefaultProvider /\ PromptIdle

Next ==
    \/ StartGenerate
    \/ ProviderFails("generate")
    \/ ProviderAnswers("generate", ProviderOutputs(3))
    \/ CheckExisting("generate", BOOLEAN)
    \/ InsertBatch("generate", BOOLEAN)
    \/ CreateEvent(CreateBodies)
    \/ UpdateEvent(UpdateBodies)
    \/ DeleteEvent
    \/ DeleteAllEvents

Spec ==
    Init /\ [][Next]_vars

(***************************************************************************)
(* SpecTwice: generateCurrentWeekEvents() called twice in succession on a *)
(* store that answers every query, with nothing else running              *)
(***************************************************************************)
NextTwice ==
    \/ StartStartup(2)
    \/ ProviderFails("startup")
    \/ ProviderAnswers("startup", ProviderOutputs(4))
    \/ CheckExisting("startup", {FALSE})
    \/ InsertBatch("startup", {FALSE})

SpecTwice ==
    Init /\ [][NextTwice]_vars

(***************************************************************************)
(* SpecRace: the startup run and a manual run side by side on a store     *)
(* that answers every query, with no CRUD request in between              *)
(***************************************************************************)
NextRace ==
    \/ StartStartup(1)
    \/ StartGenerate
    \/ \E r \in Runs : ProviderFails(r)
    \/ \E r \in Runs : ProviderAnswers(r, ProviderOutputs(3))
    \/ \E r \in Runs : CheckExisting(r, {FALSE})
    \/ \E r \in Runs : InsertBatch(r, {FALSE})

SpecRace ==
    Init /\ [][NextRace]_vars

(***************************************************************************)
(* SpecSched: the two triggers of the scheduler, the startup trigger      *)
(* firing once and the weekly trigger again and again, on a store whose   *)
(* queries and inserts may fail                                           *)
(***************************************************************************)
Triggers ==
    {"startup", "weekly"}

NextSched ==
    \/ StartStartup(1)
    \/ StartWeekly
    \/ \E r \in Triggers : ProviderFails(r)
    \/ \E r \in Triggers : ProviderAnswers(r, ProviderOutputs(3))
    \/ \E r \in Triggers : CheckExisting(r, BOOLEAN)
    \/ \E r \in Triggers : InsertBatch(r, BOOLEAN)

SpecSched ==
    Init /\ [][NextSched]_vars

(***************************************************************************)
(* SpecManual: the two manual routes that run the pipeline, on a store    *)
(* whose queries, inserts and deletes may fail                            *)
(***************************************************************************)
ManualRuns ==
    {"generate", "clear-regenerate"}

NextManual ==
    \/ StartGenerate
    \/ StartClearRegenerate(BOOLEAN)
    \/ \E r \in ManualRuns : ProviderFails(r)
    \/ \E r \in ManualRuns : ProviderAnswers(r, ProviderOutputs(3))
    \/ \E r \in ManualRuns : CheckExisting(r, BOOLEAN)
    \/ \E r \in ManualRuns : InsertBatch(r, BOOLEAN)

SpecManual ==
    Init /\ [][NextManual]_vars

(***************************************************************************)
(* SpecAdapter: manual pipeline runs under each provider the service can  *)
(* be configured for, on a store that answers every query                 *)
(***************************************************************************)
AIProvider ==
    {"gemini", "grok", "xai"}

InitAdapter ==
    InitStore /\ NormIdle /\ PromptIdle /\ provider \in AIProvider

NextAdapter ==
    \/ StartGenerate
    \/ ProviderFails("generate")
    \/ ProviderAnswers("generate", ProviderOutputs(3))
    \/ CheckExisting("generate", {FALSE})
    \/ InsertBatch("generate", {FALSE})

SpecAdapter ==
    InitAdapter /\ [][NextAdapter]_vars

(***************************************************************************)
(* SpecPrompt: buildMarketEventsPrompt called for every day of the years  *)
(* FirstYear..LastYear                                                     *)
(***************************************************************************)
FirstYear ==
    2023

LastYear ==
    2025

InitPrompt ==
    /\ InitStore /\ NormIdle /\ DefaultProvider
    /\ prompts = <<>>
    /\ targetWeek \in {d \in [year : FirstYear..LastYear, month : 1..12, day : 1..31] :
                            d.day <= daysInMonth(d.year, d.month)}

NextPrompt ==
    BuildPrompt

SpecPrompt ==
    InitPrompt /\ [][NextPrompt]_vars

(***************************************************************************)
(* SpecClear: POST requests fill the store, then clear-regenerate requests *)
(* follow one another with no other writer, on a store whose queries,     *)
(* inserts and deletes may fail                                            *)
(***************************************************************************)
NextClear ==
    \/ run["clear-regenerate"].pc = "idle" /\ CreateEvent(CreateBodies)
    \/ StartClearRegenerate(BOOLEAN)
    \/ ProviderFails("clear-regenerate")
    \/ ProviderAnswers("clear-regenerate", ProviderOutputs(3))
    \/ CheckExisting("clear-regenerate", BOOLEAN)
    \/ InsertBatch("clear-regenerate", BOOLEAN)

SpecClear ==
    Init /\ [][NextClear]_vars

(***************************************************************************)
(* SpecRoutes: the current-week route and the delete route, called on any *)
(* day of Todays and for any id, next to POST requests that fill the store *)
(***************************************************************************)
NextRoutes ==
    \/ CreateEvent(WeekBodies)
    \/ GetCurrentWeek(Todays, BOOLEAN)
    \/ DELETE(1..MaxId, BOOLEAN)

SpecRoutes ==
    Init /\ [][NextRoutes]_vars

(***************************************************************************)
(* SpecWrites: every write path of the table, fed valid and invalid       *)
(* request bodies, on a store that answers every query                    *)
(***************************************************************************)
NextWrites ==
    \/ StartGenerate
    \/ ProviderFails("generate")
    \/ ProviderAnswers("generate", ProviderOutputs(1))
    \/ CheckExisting("generate", {FALSE})
    \/ InsertBatch("generate", {FALSE})
    \/ CreateEvent(RequestBodies)
    \/ UpdateEvent(RequestBodies)
    \/ PUT(RequestBodies)
    \/ DeleteAllEvents

SpecWrites ==
    Init /\ [][NextWrites]_vars

(***************************************************************************)
(* Claims about the store and the ingestor                                 *)
(***************************************************************************)
SameIdentity(a, b) ==
    a.event = b.event /\ a.date = b.date

Succeeded(r) ==
    run[r].pc = "done" /\ run[r].result.status = "success"

\* the candidates a run has staged, given what its checks answered
RECURSIVE stagedOf(_, _, _)
stagedOf(events, checks, k) ==
    IF k > Len(checks) THEN <<>>
    ELSE IF checks[k].existing THEN stagedOf(events, checks, k + 1)
    ELSE <<events[k]>> \o stagedOf(events, checks, k + 1)

NotExisting(check) ==
    ~check.existing

\* C1: after any sequence of batch ingests, single creates, updates and
\* deletes from the empty store, no two persisted records have both the same
\* event and the same date.
C1_NoTwoRowsShareEventAndDate ==
    \A a \in store : \A b \in store :
        a.id # b.id => ~SameIdentity(a, b)

\* C2: when generateCurrentWeekEvents() runs the pipeline twice in succession
\* and the provider answers the same both times, the second call creates
\* nothing, skips everything it generated and leaves the persisted records as
\* the first call left them.
C2_SecondCallCreatesNothing ==
    (/\ Len(calls) = 2
     /\ calls[1].ranPipeline /\ calls[2].ranPipeline
     /\ calls[1].output = calls[2].output) =>
        /\ Len(calls[2].result.created) = 0
        /\ calls[2].result.skipped = calls[2].result.generated
        /\ calls[2].table = calls[1].table

\* C3: when one createEvents call gets two candidates with the same event and
\* date and neither is persisted yet, exactly one record is created for them,
\* it carries the fields of the first, and the later one is skipped.
C3_FirstOfABatchDuplicateWins ==
    \A r \in Runs : Succeeded(r) =>
        \A k1 \in 1..Len(run[r].events) : \A k2 \in 1..Len(run[r].events) :
            (/\ k1 < k2
             /\ SameIdentity(run[r].events[k1], run[r].events[k2])
             /\ \A k0 \in 1..(k1 - 1) :
                    ~SameIdentity(run[r].events[k0], run[r].events[k1])
             /\ run[r].checks[k1].matches = 0
             /\ run[r].checks[k2].matches = 0) =>
                /\ Cardinality({j \in 1..Len(run[r].result.created) :
                        SameIdentity(run[r].result.created[j], run[r].events[k1])}) = 1
                /\ \A j \in 1..Len(run[r].result.created) :
                        SameIdentity(run[r].result.created[j], run[r].events[k1]) =>
                            run[r].result.created[j].description
                                = run[r].events[k1].description
                /\ run[r].checks[k2].existing

\* C4: a candidate whose event and date equal those of a persisted record is
\* counted as skipped and is not staged for insertion (stated for the checks
\* that the store answers).
C4_PersistedIdentityIsSkipped ==
    \A r \in Runs :
        /\ run[r].uniqueEvents = stagedOf(run[r].events, run[r].checks, 1)
        /\ run[r].skippedCount = Len(run[r].checks) - Len(run[r].uniqueEvents)
        /\ \A k \in 1..Len(run[r].checks) :
            (run[r].checks[k].matches >= 1 /\ ~run[r].checks[k].fault) =>
                run[r].checks[k].existing

\* C5: when two runs interleave, a candidate is inserted only if the store
\* holds no record of the same event and date at insert time: a record the
\* other run inserted after this run's existence check is still detected.
C5_IdentityCheckedAtInsertTime ==
    [][\A r \in Runs : (run[r].pc = "insert" /\ run'[r].pc = "done") =>
        \A k \in 1..Len(run'[r].result.created) :
            SelectSeq(run[r].checks, NotExisting)[k].matches = 0 =>
                ~\E o \in Runs \ {r} : \E old \in store :
                    /\ old \in Range(run[o].result.created)
                    /\ SameIdentity(old, run'[r].result.created[k])]_vars

\* C6: when the batch insert of a createEvents call fails, the call ends with
\* an error instead of a result and nothing it staged is persisted: no step of
\* a run other than its successful insert changes the store.
C6_FailedInsertCommitsNothing ==
    [][\A r \in Runs :
        /\ (run'[r] # run[r] /\ ~(run[r].pc = "insert" /\ run'[r].pc = "done")) =>
                store' = store
        /\ (run[r].pc = "insert" /\ run'[r].pc = "failed") =>
                /\ run'[r].result.status = "failure"
                /\ run'[r].result.error = "Failed to create market events"
                /\ run'[r].result.created = <<>>]_vars

\* C14: every persisted record, whichever write path created or changed
\* it, has a type of the canonical set, a significance of High/Medium/Low, a
\* market_sentiment of Bullish/Bearish/Neutral/Mixed and only syntactically
\* valid URLs among its citations.
C14_PersistedRecordsAreValid ==
    \A row \in store :
        /\ row.type \in validTypes
        /\ row.significance \in validSignificance
        /\ row.market_sentiment \in validSentiment
        /\ \A k \in 1..Len(row.citations) : zUrl(row.citations[k])

\* a createEvents call whose insert of two staged candidates failed
C6_Witness ==
    \E r \in Runs :
        /\ run[r].pc = "failed"
        /\ run[r].result.error = "Failed to create market events"
        /\ Len(run[r].uniqueEvents) = 2
        /\ store # {}

\* C7: a candidate whose existence check errors is treated as not found and
\* staged; the remaining candidates are still classified, and the check error
\* does not end the call.
C7_CheckErrorFailsOpen ==
    \A r \in Runs :
        /\ \A k \in 1..Len(run[r].checks) :
            run[r].checks[k].fault => ~run[r].checks[k].existing
        /\ run[r].uniqueEvents = stagedOf(run[r].events, run[r].checks, 1)
        /\ run[r].pc = "check" => Len(run[r].checks) < Len(run[r].events)
        /\ run[r].pc \in {"insert", "done"} =>
            Len(run[r].checks) = Len(run[r].events)
        /\ (run[r].pc = "failed" /\ run[r].checks # <<>>) =>
            /\ Len(run[r].checks) = Len(run[r].events)
            /\ run[r].result.error = "Failed to create market events"

\* a call that staged a candidate after its check errored although the store
\* held the record, and went on to classify the next candidate
C7_Witness ==
    \E r \in Runs :
        /\ run[r].pc = "insert"
        /\ Len(run[r].checks) = 2
        /\ run[r].checks[1].fault
        /\ run[r].checks[1].matches = 1
        /\ run[r].uniqueEvents[1] = run[r].events[1]

(***************************************************************************)
(* Claims about the triggers and the run boundary                         *)
(***************************************************************************)
\* the kind of error a message belongs to
errorKind(message) ==
    IF message \in ProviderErrors THEN "provider"
    ELSE IF message \in {"No JSON array found in AI response", "SyntaxError",
                         "No valid events found in AI response"} THEN "parse"
    ELSE IF message \in {"Failed to create market events",
                         "Failed to delete market events"} THEN "ingest"
    ELSE "none"

\* C15: when the startup trigger fires and the store already holds a record
\* for the current week, the run does nothing further: the provider is not
\* invoked and the store is unchanged; when the store holds none, the full
\* pipeline starts with the provider call.
C15_StartupRunsOnlyForAMissingWeek ==
    [][(~Active("startup") /\ run'["startup"] # run["startup"]) =>
        IF \E row \in store : row.date \in CurrentWeekDates
        THEN /\ run'["startup"].pc = "done"
             /\ run'["startup"].providerCalls = 0
             /\ run'["startup"].output = NoOutput
             /\ store' = store
             /\ ~calls'[Len(calls')].ranPipeline
        ELSE /\ run'["startup"].pc = "provider"
             /\ run'["startup"].providerCalls = 0
             /\ calls' = calls]_vars

\* a first call that ran the pipeline and a second that found the week's
\* record and did nothing
C15_Witness ==
    /\ Len(calls) = 2
    /\ calls[1].ranPipeline
    /\ Len(calls[1].result.created) >= 1
    /\ ~calls[2].ranPipeline
    /\ calls[2].table = calls[1].table

\* C16: every firing of the weekly trigger starts the full pipeline with the
\* provider call, whatever the store holds; no existence pre-check suppresses
\* it.
C16_WeeklyAlwaysRunsThePipeline ==
    [][(~Active("weekly") /\ run'["weekly"] # run["weekly"]) =>
        /\ run'["weekly"].pc = "provider"
        /\ run'["weekly"].providerCalls = 0
        /\ store' = store]_vars

\* a weekly run about to call the provider although the store already holds
\* a record of the upcoming week
C16_Witness ==
    /\ run["weekly"].pc = "provider"
    /\ \E row \in store : row.date \in UpcomingWeekDates

\* C17: a trigger starts a run only when its previous run has completed,
\* successfully or with an error: never while a run of the same trigger kind
\* is running.
C17_NoOverlapWithinATriggerKind ==
    [][\A r \in Triggers :
        (run'[r].pc = "provider" /\ run'[r].providerCalls = 0 /\ run'[r] # run[r]) =>
            ~Active(r)]_vars

\* a weekly run started after an earlier weekly run had completed and left
\* its records, the startup trigger not having fired
C17_Witness ==
    /\ run["weekly"].pc = "provider"
    /\ run["startup"].pc = "idle"
    /\ store # {}

\* a failed run leaves the weekly trigger free to start its next run
C18_NextTriggerStillStarts ==
    \A r \in Triggers :
        (run[r].pc = "failed" /\ ~Active("weekly") /\ IdsLeft >= MaxBatchLen) =>
            ENABLED StartWeekly

\* the step that fails a run touches neither the store nor any other run, and
\* a failed run is not taken up again: its next step is a fresh start
C18_FailureStaysInItsRun ==
    \A r \in Triggers :
        /\ (Active(r) /\ run'[r].pc = "failed") =>
                /\ store' = store
                /\ \A o \in Runs \ {r} : run'[o] = run[o]
        /\ (run[r].pc = "failed" /\ run'[r] # run[r]) =>
                /\ run'[r].pc \in {"provider", "done"}
                /\ run'[r].providerCalls = 0
                /\ run'[r].checks = <<>>

C21_GeminiCarriesNoCitations ==
    provider = "gemini" =>
        \A r \in Runs :
            /\ run[r].output.citations = <<>>
            /\ \A k \in 1..Len(run[r].events) : ~run[r].events[k].citations.defined
            /\ \A k \in 1..Len(run[r].result.created) :
                    run[r].result.created[k].citations = <<>>

\* a gemini run that produced candidates and created their records
C21_Witness ==
    /\ provider = "gemini"
    /\ \E r \in Runs :
        /\ Succeeded(r)
        /\ Len(run[r].events) = 2
        /\ Len(run[r].result.created) >= 1

\* the day after a date
nextDay(date) ==
    IF date.day < daysInMonth(date.year, date.month)
    THEN [date EXCEPT !.day = @ + 1]
    ELSE IF date.month < 12
    THEN [year |-> date.year, month |-> date.month + 1, day |-> 1]
    ELSE [year |-> date.year + 1, month |-> 1, day |-> 1]

RECURSIVE daysLater(_, _)
daysLater(date, k) ==
    IF k = 0 THEN date ELSE daysLater(nextDay(date), k - 1)

\* every text built for the Date object states the range from that date to
\* the date six days later, so two calls for it return the same text
C22_RangeIsTheWeek ==
    \A k \in 1..Len(prompts) :
        /\ prompts[k].from = formatDate(targetWeek)
        /\ prompts[k].to = formatDate(daysLater(targetWeek, 6))
        /\ prompts[k] = prompts[1]

\* building the prompt changes neither the Date object nor anything else
C22_NothingElseChanges ==
    /\ targetWeek' = targetWeek
    /\ UNCHANGED <<normVars, storeVars, provider, res>>

\* C22: buildMarketEventsPrompt is pure: it leaves the weekStart it is given
\* unchanged, touches nothing else, returns the same text for the same
\* weekStart, and the range it states starts at weekStart and ends exactly six
\* days later, also across month and year boundaries.
C22_PromptBuilderIsPure ==
    /\ []C22_RangeIsTheWeek
    /\ [][C22_NothingElseChanges]_vars

\* two prompts built for December 29 2024, each ending on January 4 2025
C22_Witness ==
    /\ Len(prompts) = 2
    /\ targetWeek = [year |-> 2024, month |-> 12, day |-> 29]
    /\ prompts[2].from = <<"December", 29, 2024>>
    /\ prompts[2].to = <<"January", 4, 2025>>

\* C24: within one createEvents call the existence checks are issued one at
\* a time in input order, every check comes before the insert, at most one
\* insert is issued, and none when every candidate was skipped.
C24_ChecksInOrderThenOneInsert ==
    \A r \in Runs :
        /\ Len(run[r].checks) <= Len(run[r].events)
        /\ \A k \in 1..Len(run[r].checks) :
                run[r].checks[k].candidate = run[r].events[k]
        /\ run[r].inserts <= 1
        /\ run[r].inserts = 1 => Len(run[r].checks) = Len(run[r].events)
        /\ run[r].pc \in {"provider", "check", "insert"} => run[r].inserts = 0
        /\ Succeeded(r) => run[r].inserts = (IF run[r].uniqueEvents = <<>> THEN 0 ELSE 1)

\* a call that skipped its first candidate, staged its second and inserted
\* once
C24_Witness ==
    \E r \in Runs :
        /\ Succeeded(r)
        /\ Len(run[r].checks) = 2
        /\ run[r].events[1] # run[r].events[2]
        /\ run[r].checks[1].existing
        /\ ~run[r].checks[2].existing
        /\ run[r].inserts = 1

\* C26: findExistingEvent reports an existing record whenever the store holds
\* at least one record with the candidate's event and date, several included,
\* and reports none only when there is no such record or the query fails.
C26_SeveralMatchesAreFound ==
    \A r \in Runs :
        \A k \in 1..Len(run[r].checks) :
            /\ run[r].checks[k].matches >= 1 /\ ~run[r].checks[k].fault =>
                    run[r].checks[k].existing
            /\ ~run[r].checks[k].existing =>
                    run[r].checks[k].matches = 0 \/ run[r].checks[k].fault

\* the same with "exactly one record" for "at least one"
C26_OneMatchIsFound ==
    \A r \in Runs :
        \A k \in 1..Len(run[r].checks) :
            /\ run[r].checks[k].matches = 1 /\ ~run[r].checks[k].fault =>
                    run[r].checks[k].existing
            /\ ~run[r].checks[k].existing =>
                    run[r].checks[k].matches # 1 \/ run[r].checks[k].fault

\* the Sundays that open the weeks of Todays
C27_Sundays ==
    {[year |-> 2025, month |-> 11, day |-> 23],
     [year |-> 2025, month |-> 11, day |-> 30],
     [year |-> 2025, month |-> 12, day |-> 7]}

\* the seven days, Sunday to Saturday, of the week today lies in
C27_week(today) ==
    UNION {{daysLater(sunday, k) : k \in 0..6} : sunday \in
              {d \in C27_Sundays : \E k \in 0..6 : daysLater(d, k) = today}}

\* the days a date value names
C27_days(date) ==
    CASE date = "November 28 2025" -> {[year |-> 2025, month |-> 11, day |-> 28]}
      [] date = "December 1 2025" -> {[year |-> 2025, month |-> 12, day |-> 1]}
      [] date = "December 1-3 2025" ->
             {[year |-> 2025, month |-> 12, day |-> d] : d \in 1..3}
      [] date = "December 10 2025" -> {[year |-> 2025, month |-> 12, day |-> 10]}
      [] date = "1 December 2025" -> {[year |-> 2025, month |-> 12, day |-> 1]}

\* what an answer of the current-week route holds, if it is a success:
\* the records of the store whose date falls in the week of the day of the call
C27_AnswerIsTheWeek ==
    (res' # res /\ res'.route = "GET /current-week" /\ res'.success) =>
        res'.data = {row \in store : C27_days(row.date) \subseteq C27_week(res'.today)}

\* C27: getCurrentWeekEvents returns exactly the events whose date, written
\* "December 1 2025" or "December 1-3 2025", falls in the current
\* Sunday-Saturday week.
C27_CurrentWeekEventsAreTheWeeks ==
    [][C27_AnswerIsTheWeek]_vars

\* what an answer of the delete route says, if the delete statement ran
C28_AnswerTellsWhatWasRemoved ==
    (res' # res /\ res'.route = "DELETE /:id" /\ res'.status # 500) =>
        /\ (\A row \in store : row.id # res'.id) =>
                /\ res'.status = 404
                /\ res'.error = "Market event not found"
                /\ ~res'.success
                /\ store' = store
        /\ (res'.success /\ res'.deleted) =>
                \E row \in store : row.id = res'.id /\ store' = store \ {row}

\* C28: DELETE /api/market-events/:id for an id the store does not hold
\* answers 404 "Market event not found" with success = false and leaves the
\* store unchanged; success = true with deleted = true is answered only when
\* a record was removed.
C28_UnknownIdIsNotFound ==
    [][C28_AnswerTellsWhatWasRemoved]_vars

\* the part of it about the store: a delete that ran changes nothing but
\* the record of its id
C28_OnlyTheRecordOfTheIdGoes ==
    [][(res' # res /\ res'.route = "DELETE /:id" /\ res'.status # 500) =>
            store' = {row \in store : row.id # res'.id}]_vars

\* C29: in every createEvents result the number of created records plus
\* the number skipped is the number of candidates it was given, and in the
\* answers of /generate and /clear-regenerate generated = created + skipped.
C29_CountsAddUp ==
    \A r \in Runs :
        Succeeded(r) =>
            /\ Len(run[r].result.created) + run[r].result.skipped =
                    Len(run[r].events)
            /\ run[r].result.generated =
                    Len(run[r].result.created) + run[r].result.skipped
            /\ run[r].result.skipped =
                    Cardinality({k \in 1..Len(run[r].checks) :
                                    run[r].checks[k].existing})

\* each of the two routes has answered for a batch of two candidates of
\* which one was created and one skipped
C29_Witness ==
    \A r \in ManualRuns :
        /\ Succeeded(r)
        /\ Len(run[r].events) = 2
        /\ Len(run[r].result.created) = 1
        /\ run[r].result.skipped = 1

\* the state of a clear-regenerate request that no other writer crosses:
\* from the deletion on the store is empty until the request's own insert,
\* after a success it holds exactly the created records, none was skipped and
\* all generated were created, and after a failure that followed the deletion
\* the answer is a failure and the store is empty
C30_StoreFollowsTheRequest ==
    LET cr == run["clear-regenerate"]
    IN  /\ cr.pc \in {"provider", "check", "insert"} => store = {}
        /\ cr.pc = "done" =>
                /\ routeResponse("clear-regenerate", cr.result).success
                /\ cr.result.skipped = 0
                /\ Len(cr.result.created) = cr.result.generated
                /\ store = Range(cr.result.created)
        /\ (cr.pc = "failed" /\ cr.result.error # "Failed to delete market events") =>
                /\ ~routeResponse("clear-regenerate", cr.result).success
                /\ routeResponse("clear-regenerate", cr.result).status = 500
                /\ store = {}

\* the deletion is the first step of the request, before the provider is
\* invoked, and no later step of the request brings a deleted record back
C30_DeletionComesFirst ==
    LET cr == run["clear-regenerate"]
        after == run'["clear-regenerate"]
    IN  /\ (cr.pc \in {"idle", "done", "failed"} /\ after.pc = "provider") =>
                store' = {} /\ after.providerCalls = 0
        /\ after.providerCalls > cr.providerCalls => store = {}
        /\ (after # cr /\ cr.pc \in {"provider", "check", "insert"}) =>
                \A row \in store' : row.id >= nextId

\* C30: clear-regenerate deletes all events strictly before it invokes the
\* provider and the deletion is never rolled back; on success, with no
\* concurrent writer, skipped = 0, created = generated and the store holds
\* exactly the created records; on failure after the deletion the answer is a
\* failure and the store holds none of the earlier records.
C30_ClearThenRegenerate ==
    /\ []C30_StoreFollowsTheRequest
    /\ [][C30_DeletionComesFirst]_vars

\* a request that succeeded on a store that held a record before: the store
\* holds the two records it created and nothing else
C30_Witness ==
    /\ Succeeded("clear-regenerate")
    /\ Len(run["clear-regenerate"].result.created) = 2
    /\ Cardinality(store) = 2
    /\ \A row \in store : row.id >= 2

\* the stages of a pipeline run, in the order of the data flow
pipelineStages ==
    <<"prompt", "provider", "normalize", "ingest">>

\* a run has gone through a first part of the stages, in their order, each
\* entered only after the one before it succeeded, and a run that failed in
\* the provider call or in normalization has issued no check and no insert
C25_StagesInOrder ==
    \A r \in Runs :
        /\ \E n \in 0..Len(pipelineStages) :
                run[r].stages = SubSeq(pipelineStages, 1, n)
        /\ Len(run[r].stages) >= 3 =>
                run[r].output # NoOutput /\ run[r].providerCalls = 1
        /\ Len(run[r].stages) = 4 => run[r].events # <<>>
        /\ (run[r].checks # <<>> \/ run[r].inserts > 0) => Len(run[r].stages) = 4
        /\ (/\ run[r].pc = "failed"
            /\ errorKind(run[r].result.error) \in {"provider", "parse"}) =>
                /\ run[r].checks = <<>>
                /\ run[r].inserts = 0
                /\ run[r].output = NoOutput <=>
                        errorKind(run[r].result.error) = "provider"

\* a step of a run writes the store only as the insert that completes its
\* ingest stage
C25_OnlyIngestWrites ==
    \A r \in Runs :
        (run'[r] # run[r] /\ store' # store) =>
            /\ Len(run'[r].stages) = 4
            /\ run'[r].pc = "done"
            /\ run'[r].inserts = 1

C19_FailureNamesKindAndMessage ==
    \A r \in ManualRuns :
        /\ (run[r].pc = "failed" /\ errorKind(run[r].result.error) # "none") =>
                /\ ~routeResponse(r, run[r].result).success
                /\ errorKind(routeResponse(r, run[r].result).error)
                        = errorKind(run[r].result.error)
                /\ routeResponse(r, run[r].result).error = run[r].result.error
        /\ (run[r].pc \in {"done", "failed"}
                /\ routeResponse(r, run[r].result).success) =>
                /\ run[r].pc = "done"
                /\ run[r].providerCalls = 1
                /\ Len(run[r].checks) = Len(run[r].events)

\* C20: in one pipeline invocation the provider is called exactly once; when
\* that call fails in transport or returns no content, the invocation fails
\* without a second provider call and with no candidates.
C20_ProviderCalledOnce ==
    \A r \in Runs :
        /\ run[r].providerCalls <= 1
        /\ run[r].pc \in {"check", "insert"} => run[r].providerCalls = 1
        /\ Succeeded(r) => run[r].providerCalls = 1
        /\ (/\ run[r].pc = "failed"
            /\ run[r].result.error \in ProviderErrors) =>
                /\ run[r].providerCalls = 1
                /\ run[r].events = <<>>
                /\ run[r].uniqueEvents = <<>>
                /\ run[r].checks = <<>>

\* an invocation that failed because the provider returned no content
C20_Witness ==
    \E r \in Runs :
        /\ run[r].pc = "failed"
        /\ run[r].result.error = "No content received from xAI"
        /\ run[r].providerCalls = 1

(***************************************************************************)
(* Inputs of the normalizer                                                *)
(***************************************************************************)
MaxArrayLen ==
    3

DateVals ==
    {Undefined, "", "December 1 2025"}

EventVals ==
    {Undefined, "ISM PMI"}

TypeVals ==
    {Undefined, "", "Weather Event", "fed", "constructor"}
        \cup validTypes \cup DOMAIN typeMappings

DescriptionVals ==
    {"", "Manufacturing activity indicator"}

SignificanceVals ==
    {Undefined, "", "Extreme", "high"} \cup validSignificance

SentimentVals ==
    {Undefined, "bullish"} \cup validSentiment

\* every JSON object over the field values above
ObjectValues ==
    [kind : {"object"}, date : DateVals, event : EventVals, type : TypeVals,
     description : DescriptionVals, significance : SignificanceVals,
     marketSentiment : SentimentVals]

BaseObject ==
    [kind |-> "object", date |-> "December 1 2025", event |-> "ISM PMI",
     type |-> "Economic", description |-> "Manufacturing activity indicator",
     significance |-> "High", marketSentiment |-> "Mixed"]

\* the elements the longer arrays are made of
SampleValues ==
    {BaseObject,
     [BaseObject EXCEPT !.event = "FOMC Meeting", !.type = "FOMC",
                        !.marketSentiment = "Neutral"],
     [BaseObject EXCEPT !.date = "December 2 2025", !.type = "Weather Event",
                        !.significance = "Low"],
     [BaseObject EXCEPT !.type = "constructor"],
     [BaseObject EXCEPT !.significance = Undefined],
     [BaseObject EXCEPT !.significance = "Extreme"],
     [BaseObject EXCEPT !.marketSentiment = "mixed"],
     Chunk("null"),
     Chunk("number")}

SeqsUpTo(S, n) ==
    UNION {[1..k -> S] : k \in 0..n}

\* what the model may write before the array
Prefixes ==
    {<<>>, <<Chunk("text")>>, <<Chunk("open"), Chunk("text"), Chunk("close")>>,
     <<Chunk("close")>>}

\* what the model may write after the array
Suffixes ==
    {<<>>, <<Chunk("text")>>, <<Chunk("open"), Chunk("number"), Chunk("close")>>,
     <<Chunk("open")>>}

NormContents ==
    {ArrayOf(<<o>>) : o \in ObjectValues}
        \cup {pre \o ArrayOf(a) \o post :
                pre \in Prefixes, a \in SeqsUpTo(SampleValues, MaxArrayLen),
                post \in Suffixes}
        \cup {ArrayOf(ArrayOf(a)) : a \in SeqsUpTo(SampleValues, MaxArrayLen)}
        \cup {<<>>, <<Chunk("text")>>, <<Chunk("open")>>, <<Chunk("close")>>,
              <<Chunk("close"), Chunk("text"), Chunk("open")>>}

NormCitations ==
    {<<>>, <<"https://example.com">>,
     <<"https://b.example", "https://a.example", "https://b.example">>}

(***************************************************************************)
(* SpecNorm: parseAIResponse applied to every input                       *)
(***************************************************************************)
InitNorm ==
    /\ nContent \in NormContents
    /\ nCitations \in NormCitations
    /\ nResult = NotCalled
    /\ nPhase = "input"
    /\ InitStore
    /\ DefaultProvider
    /\ PromptIdle

Normalize ==
    /\ nPhase = "input"
    /\ nResult' = parseAIResponse(nContent, nCitations)
    /\ nPhase' = "done"
    /\ UNCHANGED <<nContent, nCitations, store, nextId, run, calls, provider, promptVars, res>>

NextNorm ==
    Normalize

SpecNorm ==
    InitNorm /\ [][NextNorm]_vars

(***************************************************************************)
(* Claims about the normalizer (checked under SpecNorm)                   *)
(***************************************************************************)
RequiredFields ==
    {"date", "event", "type", "description", "significance", "marketSentiment"}

\* an array element that the specification's step 3 keeps
WellFormed(e) ==
    /\ e.kind = "object"
    /\ \A f \in RequiredFields : e[f] # Undefined /\ e[f] # Null /\ e[f] # ""
    /\ e.significance \in {"High", "Medium", "Low"}
    /\ e.marketSentiment \in {"Bullish", "Bearish", "Neutral", "Mixed"}

\* the arrays a content holds: every well-formed "[" ... "]" stretch of it
ValidArraysIn(content) ==
    {JSONparse(SubSeq(content, i, j)).value :
        <<i, j>> \in {ij \in (1..Len(content)) \X (1..Len(content)) :
                        /\ ij[1] < ij[2]
                        /\ content[ij[1]].kind = "open"
                        /\ content[ij[2]].kind = "close"
                        /\ JSONparse(SubSeq(content, ij[1], ij[2])).ok}}

\* the array parseAIResponse reads: the span of the regular expression
ArrayRead ==
    JSONparse(regexMatch(nContent).span)

ArrayWasRead ==
    /\ nPhase = "done"
    /\ regexMatch(nContent).found
    /\ ArrayRead.ok

Kept ==
    SelectSeq(ArrayRead.value, WellFormed)

\* C8: for every content that holds a syntactically valid JSON array, what
\* normalize returns is no longer than that array and every returned element
\* has a canonical type, a significance of High/Medium/Low and a sentiment of
\* Bullish/Bearish/Neutral/Mixed (stated for the calls that return).
C8_ReturnedEventsAreCanonical ==
    (nPhase = "done" /\ ValidArraysIn(nContent) # {} /\ nResult.ok) =>
        /\ \E a \in ValidArraysIn(nContent) : Len(nResult.events) <= Len(a)
        /\ \A k \in 1..Len(nResult.events) :
            /\ nResult.events[k].type \in validTypes
            /\ nResult.events[k].significance \in validSignificance
            /\ nResult.events[k].market_sentiment \in validSentiment

\* C9: normalize returns exactly the array elements whose six fields are
\* present and non-empty and whose significance and marketSentiment are
\* exact members of their enums, in their original order; the others are
\* left out and do not abort the call.
C9_ExactlyTheWellFormedElements ==
    ArrayWasRead =>
        /\ Len(nResult.events) = Len(Kept)
        /\ Kept # <<>> => nResult.ok
        /\ \A k \in 1..Len(Kept) :
            /\ k <= Len(nResult.events)
            /\ nResult.events[k].date = Kept[k].date
            /\ nResult.events[k].event = Kept[k].event
            /\ nResult.events[k].description = Kept[k].description
            /\ nResult.events[k].significance = Kept[k].significance
            /\ nResult.events[k].market_sentiment = Kept[k].marketSentiment

\* a call that kept some elements of the array and left others out
C9_Witness ==
    /\ ArrayWasRead
    /\ nResult.ok
    /\ Len(Kept) >= 2
    /\ Len(Kept) < Len(ArrayRead.value)
    /\ \E k \in 1..Len(ArrayRead.value) :
        /\ ArrayRead.value[k].kind = "object"
        /\ ArrayRead.value[k].marketSentiment = "mixed"

\* the type the specification's mapping rule gives
ExpectedType(type) ==
    IF type \in DOMAIN typeMappings THEN typeMappings[type]
    ELSE IF type \in validTypes THEN type
    ELSE "Economic"

\* C10: an element that passes validation gets the mapped value when its type
\* is a key of the synonym table, its own type when that is canonical, and
\* "Economic" otherwise; no element is left out because of its type.
C10_TypeIsMappedKeptOrEconomic ==
    ArrayWasRead =>
        /\ Len(nResult.events) = Len(Kept)
        /\ \A k \in 1..Len(Kept) :
            /\ k <= Len(nResult.events)
            /\ nResult.events[k].type = ExpectedType(Kept[k].type)

\* C11: normalize fails with the "no valid events" error exactly when the
\* array parses and none of its elements survives validation (the empty array
\* included); whenever the array parses and some element survives, it succeeds
\* and returns the surviving elements, at least one.
C11_NoValidEventsIffNoneSurvives ==
    nPhase = "done" =>
        /\ (nResult.error = "No valid events found in AI response")
                <=> (ArrayWasRead /\ Kept = <<>>)
        /\ (ArrayWasRead /\ Kept # <<>>) =>
                /\ nResult.ok
                /\ Len(nResult.events) = Len(Kept)
                /\ Len(nResult.events) >= 1

\* a call on an array of several elements of which none survives
C11_Witness ==
    /\ ArrayWasRead
    /\ Len(ArrayRead.value) >= 2
    /\ Kept = <<>>
    /\ ~nResult.ok

\* a content without any "[" that has a "]" somewhere after it
NoBracketSpan(content) ==
    ~\E i \in 1..Len(content) : \E j \in 1..Len(content) :
        i < j /\ content[i].kind = "open" /\ content[j].kind = "close"

\* C12: for every content that holds no "[" ... "]" span, normalize fails with
\* a parse error and returns no candidates.
C12_NoSpanIsAParseError ==
    (nPhase = "done" /\ NoBracketSpan(nContent)) =>
        /\ ~nResult.ok
        /\ nResult.error # ""
        /\ nResult.events = <<>>

\* a call on a content whose only "]" stands before its only "["
C12_Witness ==
    /\ nPhase = "done"
    /\ NoBracketSpan(nContent)
    /\ IndicesOf(nContent, "open") # {}
    /\ IndicesOf(nContent, "close") # {}
    /\ ~nResult.ok

\* C13: every candidate of one normalize call carries the same citations: the
\* input sequence itself, same elements in the same order, when it is not
\* empty, and no citations field when it is empty.
C13_CitationsSharedOrOmitted ==
    (nPhase = "done" /\ nResult.ok) =>
        \A k \in 1..Len(nResult.events) :
            IF nCitations # <<>>
            THEN /\ nResult.events[k].citations.defined
                 /\ nResult.events[k].citations.urls = nCitations
            ELSE ~nResult.events[k].citations.defined

\* a call that returned several candidates for a citation list with a
\* repeated, unsorted entry
C13_Witness ==
    /\ nPhase = "done"
    /\ nResult.ok
    /\ Len(nResult.events) >= 2
    /\ Len(nCitations) = 3
    /\ nCitations[1] = nCitations[3]
    /\ nResult.events[2].citations.urls = nCitations

\* the brackets of a stretch of chunks pair up
RECURSIVE balanced(_, _, _)
balanced(seq, i, depth) ==
    IF i > Len(seq) THEN depth = 0
    ELSE IF seq[i].kind = "open" THEN balanced(seq, i + 1, depth + 1)
    ELSE IF seq[i].kind = "close" THEN depth > 0 /\ balanced(seq, i + 1, depth - 1)
    ELSE balanced(seq, i + 1, depth)

\* commentary: prose, possibly with bracketed asides, that holds no JSON
\* array of its own
Commentary(seq) ==
    /\ \A i \in 1..Len(seq) : seq[i].kind \in {"text", "open", "close"}
    /\ balanced(seq, 1, 0)
    /\ ValidArraysIn(seq) = {}

\* C23: for a content made of commentary, one JSON array and commentary,
\* normalize returns what it returns for the array alone.
C23_CommentaryChangesNothing ==
    nPhase = "done" =>
        \A i \in 1..Len(nContent) : \A j \in 1..Len(nContent) :
            (/\ i < j
             /\ nContent[i].kind = "open"
             /\ nContent[j].kind = "close"
             /\ JSONparse(SubSeq(nContent, i, j)).ok
             /\ Commentary(SubSeq(nContent, 1, i - 1))
             /\ Commentary(SubSeq(nContent, j + 1, Len(nContent)))) =>
                nResult = parseAIResponse(SubSeq(nContent, i, j), nCitations)

====
